---------------------------- MODULE Spec2Model ----------------------------
(***************************************************************************)
(* Model of the DiME asynchronous socket (src/server/socket.c): the frame  *)
(* codec (dime_socket_push / push_str / pop), the partial send and receive *)
(* operations and the upgrade of a plaintext connection to TLS.            *)
(*                                                                         *)
(* Bytes are naturals in 0..255; a buffer is a sequence of bytes whose     *)
(* head is the front of the ring buffer.                                   *)
(***************************************************************************)
EXTENDS Integers, Sequences, FiniteSets, TLC

(***************************************************************************)
(* Bounds of the model.                                                    *)
(***************************************************************************)
\* capacity of the outbound ring buffer (fixed at construction)
WCap == 25
\* capacity of the inbound ring buffer (fixed at construction)
RCap == 30
\* number of push / push_str calls in one behaviour
MaxPushes == 2
\* number of push_str calls in a behaviour that also receives or upgrades to TLS
MaxPushesIo == 1
\* the transport moves at most this many bytes in one call, or all there is
MaxChunk == 2
\* number of messages a sender pushes towards a receiver
MaxPipePushes == 3

\* the bytes of structured text that the model reads and writes
Ch == [lbrace |-> 123, rbrace |-> 125, lbrack |-> 91, rbrack |-> 93,
       comma |-> 44, space |-> 32]

\* the text of the literal null
TextNull == <<110, 117, 108, 108>>

Min(a, b) == IF a < b THEN a ELSE b

\* the first n elements of s (all of s when it is shorter)
Take(s, n) == SubSeq(s, 1, Min(n, Len(s)))

\* s without its first n elements
Drop(s, n) == SubSeq(s, Min(n, Len(s)) + 1, Len(s))

IsPrefix(p, s) == Len(p) <= Len(s) /\ SubSeq(s, 1, Len(p)) = p

(***************************************************************************)
(* Header: 4 magic bytes and two 32-bit lengths in network byte order.     *)
(***************************************************************************)
HdrLen == 12

Magic == <<68, 105, 77, 69>>

\* the four bytes of a 32-bit value, least significant first
HtonlLittle(n) ==
    << n % 256, (n \div 256) % 256, (n \div 65536) % 256, (n \div 16777216) % 256 >>

\* htonl: the four bytes of a 32-bit value, most significant first
Htonl(n) ==
    << (n \div 16777216) % 256, (n \div 65536) % 256, (n \div 256) % 256, n % 256 >>

\* An unsigned 32-bit value is kept as two 16-bit halves, hi * 65536 + lo.
\* the 32-bit value of a small natural
U32(n) == [hi |-> (n \div 65536) % 65536, lo |-> n % 65536]

\* unsigned 32-bit addition: the sum modulo 2^32
Add32(a, b) ==
    [hi |-> (a.hi + b.hi + (a.lo + b.lo) \div 65536) % 65536, lo |-> (a.lo + b.lo) % 65536]

\* min(x, n) for a 32-bit value x and a natural n below 65536
Min32(x, n) == IF x.hi = 0 /\ x.lo <= n THEN x.lo ELSE n

\* x = n for a 32-bit value x and a natural n below 65536
Eq32(x, n) == x.hi = 0 /\ x.lo = n

\* ntohl: the 32-bit value of four bytes read most significant first
Ntohl(b) == [hi |-> b[1] * 256 + b[2], lo |-> b[3] * 256 + b[4]]

(***************************************************************************)
(* Structured values.  A value is an object, an array of values or the     *)
(* scalar null; a null pointer (no value) is NoJson.                       *)
(***************************************************************************)
JObj == [k |-> "obj", e |-> <<>>]
JArr(elems) == [k |-> "arr", e |-> elems]
JNull == [k |-> "null", e |-> <<>>]
NoJson == [k |-> "none", e |-> <<>>]

RECURSIVE JsonDumpsElems(_)
RECURSIVE JsonDumpsValue(_)
\* compact text of a value (JSON_COMPACT: no whitespace)
JsonDumpsValue(v) ==
    CASE v.k = "obj" -> <<Ch.lbrace, Ch.rbrace>>
      [] v.k = "arr" -> <<Ch.lbrack>> \o JsonDumpsElems(v.e) \o <<Ch.rbrack>>
      [] OTHER -> TextNull
JsonDumpsElems(es) ==
    IF es = <<>> THEN <<>>
    ELSE IF Len(es) = 1 THEN JsonDumpsValue(es[1])
    ELSE JsonDumpsValue(es[1]) \o <<Ch.comma>> \o JsonDumpsElems(Tail(es))

\* json_dumps(v, JSON_COMPACT): without JSON_ENCODE_ANY only an array or an
\* object is encoded; anything else gives NULL
JsonDumps(v) ==
    IF v.k \in {"obj", "arr"}
    THEN [ok |-> TRUE, str |-> JsonDumpsValue(v)]
    ELSE [ok |-> FALSE, str |-> <<>>]

RECURSIVE SkipWs(_, _)
\* index of the first non-blank byte of s at or after i
SkipWs(s, i) == IF i <= Len(s) /\ s[i] = Ch.space THEN SkipWs(s, i + 1) ELSE i

ParseFail == [ok |-> FALSE, val |-> NoJson, next |-> 0]

RECURSIVE ParseValue(_, _)
RECURSIVE ParseElems(_, _, _)
\* parse one value of s starting at i: the value and the index after it
ParseValue(s, i) ==
    LET j == SkipWs(s, i) IN
    IF j > Len(s) THEN ParseFail
    ELSE IF s[j] = Ch.lbrace THEN
        LET m == SkipWs(s, j + 1) IN
        IF m <= Len(s) /\ s[m] = Ch.rbrace
        THEN [ok |-> TRUE, val |-> JObj, next |-> m + 1]
        ELSE ParseFail
    ELSE IF s[j] = Ch.lbrack THEN
        LET m == SkipWs(s, j + 1) IN
        IF m <= Len(s) /\ s[m] = Ch.rbrack
        THEN [ok |-> TRUE, val |-> JArr(<<>>), next |-> m + 1]
        ELSE ParseElems(s, j + 1, <<>>)
    ELSE IF j + 3 <= Len(s) /\ SubSeq(s, j, j + 3) = TextNull
         THEN [ok |-> TRUE, val |-> JNull, next |-> j + 4]
    ELSE ParseFail
\* parse the elements of an array up to its closing bracket
ParseElems(s, i, acc) ==
    LET r == ParseValue(s, i) IN
    IF ~r.ok THEN ParseFail
    ELSE LET m == SkipWs(s, r.next) IN
         IF m > Len(s) THEN ParseFail
         ELSE IF s[m] = Ch.comma THEN ParseElems(s, m + 1, Append(acc, r.val))
         ELSE IF s[m] = Ch.rbrack
              THEN [ok |-> TRUE, val |-> JArr(Append(acc, r.val)), next |-> m + 1]
         ELSE ParseFail

\* json_loadb(buf, len, 0, &err): without JSON_DECODE_ANY the text must be
\* one array or object, followed by nothing but blanks; NULL otherwise
JsonLoadb(s) ==
    LET r == ParseValue(s, 1) IN
    IF r.ok /\ r.val.k \in {"obj", "arr"} /\ SkipWs(s, r.next) > Len(s)
    THEN [ok |-> TRUE, val |-> r.val]
    ELSE [ok |-> FALSE, val |-> NoJson]

(***************************************************************************)
(* Ring buffer (ringbuffer.h): a byte store of fixed capacity.             *)
(***************************************************************************)
\* dime_ringbuffer_len
RbLen(rb) == Len(rb)

\* dime_ringbuffer_write: appends data and gives the count written, or fails
\* (negative) and appends nothing when data is more than the room left
RbWrite(rb, data, cap) ==
    IF Len(data) > cap - Len(rb)
    THEN [ret |-> -1, rb |-> rb]
    ELSE [ret |-> Len(data), rb |-> rb \o data]

\* dime_ringbuffer_peek: the first n bytes (fewer when fewer are buffered),
\* which stay in the buffer; the count peeked is the length of the result
RbPeek(rb, n) == Take(rb, n)

\* dime_ringbuffer_discard: drops n bytes from the front
RbDiscard(rb, n) == Drop(rb, n)

(***************************************************************************)
(* Frame codec.                                                            *)
(***************************************************************************)
SENDBUFLEN == 200000000
RECVBUFLEN == 200000000

\* a header whose two length fields have changed places
DimeHeaderSwapped(jsondata_len, bindata_len) ==
    Magic \o Htonl(bindata_len) \o Htonl(jsondata_len)

\* struct dime_header as push_str fills it: magic and the two lengths
DimeHeader(jsondata_len, bindata_len) ==
    Magic \o Htonl(jsondata_len) \o Htonl(bindata_len)

\* dime_socket_push_str on outbound buffer wb: the value returned and the
\* outbound buffer afterwards.  The three writes are tried in order and the
\* first short one ends the call.
PushStr(wb, jsonstr, bindata) ==
    LET jsondata_len == Len(jsonstr)
        bindata_len == Len(bindata)
        w1 == RbWrite(wb, DimeHeader(jsondata_len, bindata_len), WCap)
        w2 == RbWrite(w1.rb, jsonstr, WCap)
        w3 == RbWrite(w2.rb, bindata, WCap) IN
    IF w1.ret < HdrLen THEN [ret |-> -1, wbuf |-> w1.rb]
    ELSE IF w2.ret < jsondata_len THEN [ret |-> -1, wbuf |-> w2.rb]
    ELSE IF w3.ret < bindata_len THEN [ret |-> -1, wbuf |-> w3.rb]
    ELSE [ret |-> HdrLen + jsondata_len + bindata_len, wbuf |-> w3.rb]

\* dime_socket_push: renders the value, then push_str
Push(wb, jsondata, bindata) ==
    LET d == JsonDumps(jsondata) IN
    IF ~d.ok THEN [ret |-> -1, wbuf |-> wb]
    ELSE PushStr(wb, d.str, bindata)

\* memcmp(&hdr, "DiME", 3): the last magic byte is not looked at
MagicOk3(hdr) == SubSeq(hdr, 1, 3) = SubSeq(Magic, 1, 3)

\* memcmp(&hdr, "DiME", 4) == 0
MagicOk(hdr) == SubSeq(hdr, 1, 4) = Magic

\* a frame size that leaves the blob out
MsgSizNoBin(jsondata_len, bindata_len) == Add32(U32(HdrLen), jsondata_len)

\* msgsiz = 12 + hdr.jsondata_len + hdr.bindata_len: the operands are an int
\* and two uint32_t, so the sum is formed in unsigned 32-bit arithmetic
\* before it is stored in the size_t
MsgSiz(jsondata_len, bindata_len) == Add32(Add32(U32(HdrLen), jsondata_len), bindata_len)

\* a failing pop that drops the header it has looked at
PopNoneDiscard(ret, why, rb) ==
    [ret |-> ret, why |-> why, rbuf |-> IF ret < 0 THEN RbDiscard(rb, HdrLen) ELSE rb,
     out |-> FALSE, jsondata |-> NoJson, bindata |-> <<>>, bindata_len |-> -1]

\* what pop hands back when it decodes nothing
PopNone(ret, why, rb) ==
    [ret |-> ret, why |-> why, rbuf |-> rb, out |-> FALSE,
     jsondata |-> NoJson, bindata |-> <<>>, bindata_len |-> -1]

\* dime_socket_pop on inbound buffer rb; mallocBuf and mallocBin tell whether
\* the allocation of the frame copy and of the blob succeed.  out tells
\* whether the three output parameters were assigned.  When the structured
\* segment announced by the header ends beyond the msgsiz bytes copied,
\* json_loadb reads past the end of the copy: the behaviour is undefined, and
\* overread tells what comes of it, a failure return or a crash.
Pop(rb, mallocBuf, mallocBin, overread) ==
    LET hdr == RbPeek(rb, HdrLen) IN
    IF Len(hdr) # HdrLen THEN PopNone(0, "short_header", rb)
    ELSE IF ~MagicOk(hdr) THEN PopNone(-1, "bad_magic", rb)
    ELSE
      LET jsondata_len == Ntohl(SubSeq(hdr, 5, 8))
          bindata_len == Ntohl(SubSeq(hdr, 9, 12))
          msgsiz == MsgSiz(jsondata_len, bindata_len)
          npeek == Min32(msgsiz, RbLen(rb))
          buf == RbPeek(rb, npeek) IN
      IF ~mallocBuf THEN PopNone(-1, "nomem_buf", rb)
      ELSE IF ~Eq32(msgsiz, npeek) THEN PopNone(0, "incomplete", rb)
      ELSE IF jsondata_len.hi # 0 \/ HdrLen + jsondata_len.lo > npeek THEN
        PopNone(-1, overread, rb)
      ELSE IF Eq32(jsondata_len, 0) /\ HdrLen > npeek THEN PopNone(-1, "bad_json", rb)
      ELSE
        LET j == JsonLoadb(SubSeq(buf, HdrLen + 1, HdrLen + jsondata_len.lo)) IN
        IF ~j.ok THEN PopNone(-1, "bad_json", rb)
        ELSE IF ~mallocBin THEN PopNone(-1, "nomem_bin", rb)
        ELSE [ret |-> npeek, why |-> "ok", rbuf |-> RbDiscard(rb, npeek),
              out |-> TRUE, jsondata |-> j.val,
              bindata |-> SubSeq(buf, HdrLen + jsondata_len.lo + 1, npeek),
              bindata_len |-> bindata_len.lo]

(***************************************************************************)
(* The socket and its environment.                                         *)
(***************************************************************************)
VARIABLES
    rbuf,        \* sock->rbuf: the inbound buffer
    wbuf,        \* sock->wbuf: the outbound buffer
    tls,         \* sock->tls != NULL
    nonblock,    \* O_NONBLOCK is set on sock->fd
    pc,          \* "idle", or the position inside dime_socket_init_tls
    flags,       \* init_tls: O_NONBLOCK as fcntl(F_GETFL) reported it
    assertsOn,   \* the build keeps assert() (NDEBUG is not defined)
    wire,        \* bytes the peer has sent that recv has not delivered yet
    last,        \* the last call that returned and what it gave back
    tlsCall,     \* what has happened so far in the init_tls call under way
    nPush,       \* number of push / push_str calls so far
    pushedTotal, \* sum of the counts returned by successful pushes
    sentTotal,   \* sum of the counts returned by successful sendpartial calls
    pushRefused, \* some push_str call so far failed on a ring buffer write
    upgraded,    \* some dime_socket_init_tls call so far returned success
    pushed,      \* the messages of the pushes that returned success, in call order
    popped       \* the messages dime_socket_pop has handed out, in call order

vars == <<rbuf, wbuf, tls, nonblock, pc, flags, assertsOn, wire, last, tlsCall,
          nPush, pushedTotal, sentTotal, pushRefused, upgraded, pushed, popped>>

(***************************************************************************)
(* Inputs of the model.                                                    *)
(***************************************************************************)
TextObj == <<Ch.lbrace, Ch.rbrace>>
TextObjBlanks == <<Ch.lbrace, Ch.space, Ch.rbrace, Ch.space>>
TextArrObj == <<Ch.lbrack, Ch.lbrace, Ch.rbrace, Ch.rbrack>>

\* structured values handed to dime_socket_push
JsonValues == {JObj, JArr(<<JObj>>), JNull}

\* texts handed to dime_socket_push_str
JsonStrs == {<<>>, TextObjBlanks}

\* blobs
BlobA == <<65>>
BlobB == <<66>>
BlobAB == <<65, 66>>
Blobs == {<<>>, BlobA, BlobAB}

\* blobs handed to the pushes of the sending side
SendBlobs == {<<>>, BlobAB}

\* the bytes dime_socket_push_str hands to an empty outbound buffer
Serialized(jsonstr, bindata) == PushStr(<<>>, jsonstr, bindata).wbuf

\* s with its i-th byte replaced by b
Corrupt(s, i, b) == [s EXCEPT ![i] = b]

\* frames whose structured text the parser accepts
ValidFrames == { Serialized(t, b) : t \in {TextObj, TextObjBlanks, TextArrObj}, b \in Blobs }

\* frames with a structured segment of length zero
EmptyTextFrames == { Serialized(<<>>, b) : b \in {<<>>, BlobAB} }

\* frames whose structured text the parser rejects
BadTextFrames == { Serialized(<<Ch.lbrace>>, BlobA), Serialized(TextNull, <<>>) }

\* a frame with one of its magic bytes changed
BadMagicFrames == { Corrupt(Serialized(TextObj, BlobAB), i, 65) : i \in 1..4 }

\* a header with the magic whose lengths 2^32 - 1 and 1 add up, with the 12
\* bytes of the header, to 2^32 + 12
WrapHeader == Magic \o <<255, 255, 255, 255>> \o <<0, 0, 0, 1>>

\* a frame of 12 + 2 + 20 bytes, more than the inbound buffer holds
OversizeStream == DimeHeader(2, 20) \o TextObj \o [i \in 1 .. 20 |-> 65]

\* two frames that together are longer than the inbound buffer
LongStream == Serialized(TextArrObj, BlobAB) \o Serialized(TextObjBlanks, <<>>)

\* what the peer sends in the codec scenarios: one frame, or several one
\* after the other
PeerStreams ==
    ValidFrames \cup EmptyTextFrames \cup BadTextFrames \cup BadMagicFrames
    \cup { Serialized(TextObj, BlobAB) \o Serialized(TextArrObj, <<>>),
           Serialized(TextArrObj, BlobB) \o Serialized(<<>>, BlobA),
           LongStream, WrapHeader }

\* no init_tls call
NoTlsCall ==
    [active |-> FALSE, rlen0 |-> 0, wlen0 |-> 0, sent0 |-> 0, nonblock0 |-> FALSE,
     tls0 |-> FALSE, modeChanged |-> FALSE, sslNew |-> FALSE, handshake |-> FALSE]

NoCall ==
    [op |-> "none", ret |-> 0, why |-> "", via |-> "", errno |-> "", out |-> FALSE,
     jsondata |-> NoJson, bindata |-> <<>>, bindata_len |-> -1, call |-> NoTlsCall]

\* the record of a call that returned ret
Called(op, ret, why) == [NoCall EXCEPT !.op = op, !.ret = ret, !.why = why]

\* the socket after dime_socket_init, on a descriptor whose O_NONBLOCK flag
\* is one of nonblocks, in a build that keeps assert() or not as asserts
\* tells, with a peer that sends one of streams
InitWith(streams, nonblocks, asserts) ==
    /\ rbuf = <<>>
    /\ wbuf = <<>>
    /\ tls = FALSE
    /\ nonblock \in nonblocks
    /\ pc = "idle"
    /\ flags = FALSE
    /\ assertsOn \in asserts
    /\ wire \in streams
    /\ last = NoCall
    /\ tlsCall = NoTlsCall
    /\ nPush = 0
    /\ pushedTotal = 0
    /\ sentTotal = 0
    /\ pushRefused = FALSE
    /\ upgraded = FALSE
    /\ pushed = <<>>
    /\ popped = <<>>

(***************************************************************************)
(* dime_socket_push and dime_socket_push_str                               *)
(***************************************************************************)
\* the effect of a push of text t and blob b that gave r; refused: a ring
\* buffer write fell short
DoPush(r, refused, t, b) ==
    /\ wbuf' = r.wbuf
    /\ pushed' = IF r.ret >= 0 THEN Append(pushed, [jsonstr |-> t, bindata |-> b]) ELSE pushed
    /\ nPush' = nPush + 1
    /\ pushedTotal' = IF r.ret >= 0 THEN pushedTotal + r.ret ELSE pushedTotal
    /\ pushRefused' = (pushRefused \/ refused)
    /\ last' = Called("push", r.ret, IF r.ret >= 0 THEN "ok"
                                     ELSE IF refused THEN "refused" ELSE "dumps")
    /\ UNCHANGED <<rbuf, tls, nonblock, pc, flags, assertsOn, wire, tlsCall, sentTotal,
                   upgraded, popped>>

dime_socket_push(values, blobs, limit) ==
    /\ pc = "idle"
    /\ nPush < limit
    /\ \E v \in values, b \in blobs :
         DoPush(Push(wbuf, v, b), JsonDumps(v).ok /\ Push(wbuf, v, b).ret < 0,
                JsonDumps(v).str, b)

dime_socket_push_str(strs, blobs, limit) ==
    /\ pc = "idle"
    /\ nPush < limit
    /\ \E t \in strs, b \in blobs :
         DoPush(PushStr(wbuf, t, b), PushStr(wbuf, t, b).ret < 0, t, b)

(***************************************************************************)
(* dime_socket_pop                                                         *)
(***************************************************************************)
\* one call of dime_socket_pop in which malloc answers as mallocs allows
PopCall(mallocs) ==
    /\ pc = "idle"
    /\ \E mallocBuf \in mallocs, mallocBin \in mallocs, overread \in {"overread", "crash"} :
         LET r == Pop(rbuf, mallocBuf, mallocBin, overread) IN
         IF r.why = "crash" THEN
            /\ pc' = "aborted"
            /\ UNCHANGED <<rbuf, last, popped>>
         ELSE
            /\ rbuf' = r.rbuf
            /\ last' = [Called("pop", r.ret, r.why)
                          EXCEPT !.out = r.out, !.jsondata = r.jsondata,
                                 !.bindata = r.bindata, !.bindata_len = r.bindata_len]
            /\ popped' = IF r.out
                         THEN Append(popped, [jsondata |-> r.jsondata, bindata |-> r.bindata])
                         ELSE popped
            /\ UNCHANGED pc
    /\ UNCHANGED <<wbuf, tls, nonblock, flags, assertsOn, wire, tlsCall,
                   nPush, pushedTotal, sentTotal, pushRefused, upgraded, pushed>>

dime_socket_pop == PopCall(BOOLEAN)

(***************************************************************************)
(* dime_socket_sendpartial                                                 *)
(***************************************************************************)
\* a sendpartial that drops the whole window it offered, whatever was accepted
SendPartialWindow(wb, malloc, nsent) ==
    IF ~malloc THEN [ret |-> -1, why |-> "nomem", wbuf |-> wb]
    ELSE IF nsent < 0 THEN [ret |-> -1, why |-> "transport", wbuf |-> wb]
    ELSE [ret |-> nsent, why |-> "ok", wbuf |-> RbDiscard(wb, SENDBUFLEN)]

\* a sendpartial that drops a byte when the transport fails
SendPartialDropOnError(wb, malloc, nsent) ==
    IF ~malloc THEN [ret |-> -1, why |-> "nomem", wbuf |-> wb]
    ELSE IF nsent < 0 THEN [ret |-> -1, why |-> "transport", wbuf |-> RbDiscard(wb, 1)]
    ELSE [ret |-> nsent, why |-> "ok", wbuf |-> RbDiscard(wb, nsent)]

\* a sendpartial that drops one byte more than the transport accepted
SendPartialOneMore(wb, malloc, nsent) ==
    IF ~malloc THEN [ret |-> -1, why |-> "nomem", wbuf |-> wb]
    ELSE IF nsent < 0 THEN [ret |-> -1, why |-> "transport", wbuf |-> wb]
    ELSE [ret |-> nsent, why |-> "ok", wbuf |-> RbDiscard(wb, nsent + 1)]

\* one call on outbound buffer wb: malloc gives the window or not, and the
\* transport (SSL_write or send) accepts nsent bytes of the window, or
\* fails with nsent < 0
SendPartial(wb, malloc, nsent) ==
    IF ~malloc THEN [ret |-> -1, why |-> "nomem", wbuf |-> wb]
    ELSE IF nsent < 0 THEN [ret |-> -1, why |-> "transport", wbuf |-> wb]
    ELSE [ret |-> nsent, why |-> "ok", wbuf |-> RbDiscard(wb, nsent)]

\* what the transport may answer when offered n bytes: failure, or a count
\* of bytes moved
Answers(n) == (-1 .. Min(n, MaxChunk)) \cup {n}

\* the counts the transport may answer when offered the window of wb
SendAnswers(wb) == Answers(Len(RbPeek(wb, SENDBUFLEN)))

\* the effect of one sendpartial call, made by the owner or by init_tls
DoSendPartial(r) ==
    /\ wbuf' = r.wbuf
    /\ sentTotal' = IF r.ret >= 0 THEN sentTotal + r.ret ELSE sentTotal
    /\ last' = [Called("sendpartial", r.ret, r.why)
                  EXCEPT !.via = IF tls THEN "tls" ELSE "raw"]

dime_socket_sendpartial ==
    /\ pc = "idle"
    /\ \E malloc \in BOOLEAN, nsent \in SendAnswers(wbuf) :
         DoSendPartial(SendPartial(wbuf, malloc, nsent))
    /\ UNCHANGED <<rbuf, tls, nonblock, pc, flags, assertsOn, wire, tlsCall,
                   nPush, pushedTotal, pushRefused, upgraded>>
    /\ UNCHANGED <<pushed, popped>>

\* what a transport without errors answers when offered n bytes: it moves
\* MaxChunk bytes, or all there is
Moves(n) == {Min(n, MaxChunk), n}

\* dime_socket_sendpartial on a sender whose transport is the connection a
\* receiver reads from: the bytes the transport accepts, the first nsent
\* bytes of the window, are what the receiver's recv delivers later
sendpartial_to_peer ==
    /\ pc = "idle"
    /\ \E nsent \in Moves(Len(RbPeek(wbuf, SENDBUFLEN))) :
         /\ DoSendPartial(SendPartial(wbuf, TRUE, nsent))
         /\ wire' = wire \o Take(RbPeek(wbuf, SENDBUFLEN), nsent)
    /\ UNCHANGED <<rbuf, tls, nonblock, pc, flags, assertsOn, tlsCall,
                   nPush, pushedTotal, pushRefused, upgraded, pushed, popped>>

(***************************************************************************)
(* dime_socket_recvpartial                                                 *)
(***************************************************************************)
\* a recvpartial that keeps the bytes that fit when the inbound buffer has
\* no room for all of them, and reports them all as received
RecvPartialShort(rb, malloc, nrecvd, data) ==
    IF ~malloc THEN [ret |-> -1, why |-> "nomem", rbuf |-> rb]
    ELSE IF nrecvd < 0 THEN [ret |-> -1, why |-> "transport", rbuf |-> rb]
    ELSE [ret |-> nrecvd, why |-> "ok", rbuf |-> rb \o Take(data, RCap - Len(rb))]

\* a recvpartial that reports zero bytes when the inbound buffer refuses the
\* bytes received
RecvPartialQuiet(rb, malloc, nrecvd, data) ==
    IF ~malloc THEN [ret |-> -1, why |-> "nomem", rbuf |-> rb]
    ELSE IF nrecvd < 0 THEN [ret |-> -1, why |-> "transport", rbuf |-> rb]
    ELSE LET w == RbWrite(rb, data, RCap) IN
         IF w.ret < 0 THEN [ret |-> 0, why |-> "ok", rbuf |-> w.rb]
         ELSE [ret |-> nrecvd, why |-> "ok", rbuf |-> w.rb]

\* one call on inbound buffer rb: the transport (SSL_read or recv) delivers
\* the nrecvd bytes data, or fails with nrecvd < 0
RecvPartial(rb, malloc, nrecvd, data) ==
    IF ~malloc THEN [ret |-> -1, why |-> "nomem", rbuf |-> rb]
    ELSE IF nrecvd < 0 THEN [ret |-> -1, why |-> "transport", rbuf |-> rb]
    ELSE LET w == RbWrite(rb, data, RCap) IN
         IF w.ret < 0 THEN [ret |-> -1, why |-> "full", rbuf |-> w.rb]
         ELSE [ret |-> nrecvd, why |-> "ok", rbuf |-> w.rb]

\* errno after recv (or the SSL_read error) when nrecvd is returned with
\* navail bytes waiting: a negative return is a genuine transport error or,
\* on a non-blocking descriptor with nothing waiting, "no data yet"
RecvErrnos(navail, nb, nrecvd) ==
    IF nrecvd >= 0 THEN {""}
    ELSE {"ECONNRESET"} \cup (IF navail = 0 /\ nb THEN {"EAGAIN"} ELSE {})

\* one call of dime_socket_recvpartial in which malloc answers as mallocs
\* allows and the transport, with n bytes waiting, answers any of Answers(n)
\* when faults is set and delivers some of the n bytes otherwise
RecvPartialCall(mallocs, faults) ==
    /\ pc = "idle"
    /\ \E malloc \in mallocs,
          nrecvd \in (IF faults THEN Answers(Min(Len(wire), RECVBUFLEN))
                                ELSE Moves(Min(Len(wire), RECVBUFLEN))) :
       \E errno \in (IF malloc THEN RecvErrnos(Len(wire), nonblock, nrecvd) ELSE {""}) :
         LET data == IF malloc /\ nrecvd > 0 THEN Take(wire, nrecvd) ELSE <<>>
             r == RecvPartial(rbuf, malloc, nrecvd, data) IN
         /\ rbuf' = r.rbuf
         /\ wire' = Drop(wire, Len(data))
         /\ last' = [Called("recvpartial", r.ret, r.why)
                       EXCEPT !.via = IF tls THEN "tls" ELSE "raw", !.errno = errno]
    /\ UNCHANGED <<wbuf, tls, nonblock, pc, flags, assertsOn, tlsCall,
                   nPush, pushedTotal, sentTotal, pushRefused, upgraded, pushed, popped>>

dime_socket_recvpartial == RecvPartialCall(BOOLEAN, TRUE)

(***************************************************************************)
(* dime_socket_init_tls.  The call blocks: it is modelled in steps, one    *)
(* per interaction with the descriptor, and no other operation of the      *)
(* socket runs before it returns.                                          *)
(***************************************************************************)
\* init_tls returns ret: the call is over
InitTlsReturn(ret, why, call) ==
    /\ pc' = "idle"
    /\ last' = [Called("init_tls", ret, why) EXCEPT !.call = [call EXCEPT !.active = FALSE]]
    /\ tlsCall' = NoTlsCall
    /\ upgraded' = (upgraded \/ ret = 0)

\* O_NONBLOCK after fcntl(fd, F_SETFL, flags) is tried inside
\* "if ((flags & ~O_NONBLOCK) != flags)"; ok tells whether fcntl succeeds
Restored(ok) == IF flags /\ ok THEN TRUE ELSE nonblock

\* lines 57-66: read the flags, make the descriptor blocking, assert that the
\* inbound buffer is empty
init_tls_enter ==
    /\ pc = "idle"
    /\ \E getfl \in BOOLEAN, setfl \in BOOLEAN :
         LET call == [active |-> TRUE, rlen0 |-> RbLen(rbuf), wlen0 |-> RbLen(wbuf),
                      sent0 |-> sentTotal, nonblock0 |-> nonblock,
                      tls0 |-> tls, modeChanged |-> FALSE, sslNew |-> FALSE,
                      handshake |-> FALSE] IN
         IF ~getfl THEN
            /\ InitTlsReturn(-1, "getfl", call)
            /\ UNCHANGED <<nonblock, flags>>
         ELSE IF nonblock /\ ~setfl THEN
            /\ InitTlsReturn(-1, "setfl", call)
            /\ flags' = nonblock
            /\ UNCHANGED nonblock
         ELSE
            /\ flags' = nonblock
            /\ nonblock' = FALSE
            /\ tlsCall' = [call EXCEPT !.modeChanged = nonblock]
            /\ pc' = IF RbLen(rbuf) # 0 /\ assertsOn THEN "aborted" ELSE "drain"
            /\ UNCHANGED <<last, upgraded>>
    /\ UNCHANGED <<rbuf, wbuf, tls, assertsOn, wire, nPush, pushedTotal, sentTotal,
                   pushRefused>>
    /\ UNCHANGED <<pushed, popped>>

\* a loop that is left at once, whatever the outbound buffer holds
DrainDoneAlways(wb) == TRUE

\* line 68: the loop that empties the outbound buffer is left when
\* dime_ringbuffer_len(&sock->wbuf) > 0 is false
DrainDone(wb) == ~(RbLen(wb) > 0)

\* lines 68-69: one turn of the loop that empties the outbound buffer
init_tls_drain ==
    /\ pc = "drain"
    /\ ~DrainDone(wbuf)
    /\ \E malloc \in BOOLEAN, nsent \in SendAnswers(wbuf) :
         LET r == SendPartial(wbuf, malloc, nsent) IN
         /\ DoSendPartial(r)
         /\ pc' = IF r.ret < 0 THEN "drain_failed" ELSE "drain"
    /\ UNCHANGED <<rbuf, tls, nonblock, flags, assertsOn, wire, tlsCall, nPush,
                   pushedTotal, pushRefused, upgraded>>
    /\ UNCHANGED <<pushed, popped>>

\* lines 70-74: sendpartial failed; put the flags back and give up
init_tls_drain_failed ==
    /\ pc = "drain_failed"
    /\ \E restore \in BOOLEAN :
         /\ nonblock' = Restored(restore)
         /\ InitTlsReturn(-1, "drain", tlsCall)
    /\ UNCHANGED <<rbuf, wbuf, tls, flags, assertsOn, wire, nPush, pushedTotal,
                   sentTotal, pushRefused>>
    /\ UNCHANGED <<pushed, popped>>

\* lines 78-81: SSL_new gives no session
init_tls_new_failed ==
    /\ pc = "drain"
    /\ DrainDone(wbuf)
    /\ tls' = FALSE
    /\ InitTlsReturn(-1, "ssl_new", [tlsCall EXCEPT !.sslNew = TRUE])
    /\ UNCHANGED <<rbuf, wbuf, nonblock, flags, assertsOn, wire, nPush, pushedTotal,
                   sentTotal, pushRefused>>
    /\ UNCHANGED <<pushed, popped>>

\* lines 78-96: the session is made and bound to the descriptor, and
\* SSL_accept starts the handshake
init_tls_accept ==
    /\ pc = "drain"
    /\ DrainDone(wbuf)
    /\ tls' = TRUE
    /\ tlsCall' = [tlsCall EXCEPT !.sslNew = TRUE, !.handshake = TRUE]
    /\ pc' = "handshake"
    /\ UNCHANGED <<rbuf, wbuf, nonblock, flags, assertsOn, wire, last, nPush,
                   pushedTotal, sentTotal, pushRefused, upgraded>>
    /\ UNCHANGED <<pushed, popped>>

\* lines 85-105: SSL_set_fd fails before the handshake, or SSL_accept fails;
\* the session is freed and the flags are put back
init_tls_handshake_failed ==
    /\ \E step \in {"ssl_set_fd", "ssl_accept"}, restore \in BOOLEAN :
         /\ IF step = "ssl_set_fd" THEN pc = "drain" /\ DrainDone(wbuf)
                                   ELSE pc = "handshake"
         /\ tls' = FALSE
         /\ nonblock' = Restored(restore)
         /\ InitTlsReturn(-1, step, [tlsCall EXCEPT !.sslNew = TRUE])
    /\ UNCHANGED <<rbuf, wbuf, flags, assertsOn, wire, nPush, pushedTotal,
                   sentTotal, pushRefused>>
    /\ UNCHANGED <<pushed, popped>>

\* lines 96-112: the handshake succeeds; the flags are put back, and the
\* call fails when that fails
init_tls_handshake_done ==
    /\ pc = "handshake"
    /\ \E restore \in BOOLEAN :
         /\ tls' = TRUE
         /\ nonblock' = Restored(restore)
         /\ InitTlsReturn(IF flags /\ ~restore THEN -1 ELSE 0,
                          IF flags /\ ~restore THEN "setfl_back" ELSE "ok",
                          tlsCall)
    /\ UNCHANGED <<rbuf, wbuf, flags, assertsOn, wire, nPush, pushedTotal,
                   sentTotal, pushRefused>>
    /\ UNCHANGED <<pushed, popped>>

(***************************************************************************)
(* Specifications.                                                         *)
(***************************************************************************)
\* the whole socket: a short message to send, a peer that has sent a few
\* bytes, and the upgrade to TLS
Init == InitWith({<<>>, BlobAB}, BOOLEAN, BOOLEAN)

Next ==
    \/ dime_socket_push_str({TextObj}, {<<>>}, MaxPushesIo)
    \/ dime_socket_pop
    \/ dime_socket_sendpartial
    \/ dime_socket_recvpartial
    \/ init_tls_enter
    \/ init_tls_drain
    \/ init_tls_drain_failed
    \/ init_tls_new_failed
    \/ init_tls_accept
    \/ init_tls_handshake_failed
    \/ init_tls_handshake_done

Spec == Init /\ [][Next]_vars

\* the receiving side: the peer sends frames, whole, cut short or damaged
InitCodec == InitWith(PeerStreams, {TRUE}, {TRUE})

NextCodec ==
    \/ dime_socket_recvpartial
    \/ dime_socket_pop

SpecCodec == InitCodec /\ [][NextCodec]_vars

\* the sending side: messages are pushed and sent piece by piece
InitSend == InitWith({<<>>}, {TRUE}, {TRUE})

NextSend ==
    \/ dime_socket_push(JsonValues, SendBlobs, MaxPushes)
    \/ dime_socket_push_str(JsonStrs, SendBlobs, MaxPushes)
    \/ dime_socket_sendpartial

SpecSend == InitSend /\ [][NextSend]_vars

\* a sendpartial call in which the transport accepts at least one byte
SendProgress == dime_socket_sendpartial /\ last'.ret > 0

\* the sending side when the owner keeps calling sendpartial while the
\* outbound buffer holds bytes and the transport keeps accepting some
NextSendFair ==
    \/ dime_socket_push_str(JsonStrs, SendBlobs, MaxPushes)
    \/ dime_socket_sendpartial

SpecSendFair == InitSend /\ [][NextSendFair]_vars /\ WF_vars(SendProgress)

\* both directions: a message is sent piece by piece while the peer sends
\* more than the inbound buffer holds
InitIo == InitWith({LongStream}, {TRUE}, {TRUE})

NextIo ==
    \/ dime_socket_push_str({TextObj}, {BlobAB}, MaxPushesIo)
    \/ dime_socket_sendpartial
    \/ dime_socket_recvpartial

SpecIo == InitIo /\ [][NextIo]_vars

\* a sender and a receiver: the outbound buffer is the sender's, the inbound
\* buffer the receiver's, and what the sender's transport accepts is what
\* the receiver's transport delivers; no allocation and no transport call
\* fails
InitPipe == InitWith({<<>>}, {TRUE}, {TRUE})

NextPipe ==
    \/ dime_socket_push_str({TextObj}, {BlobAB}, MaxPipePushes)
    \/ sendpartial_to_peer
    \/ RecvPartialCall({TRUE}, FALSE)
    \/ PopCall({TRUE})

SpecPipe == InitPipe /\ [][NextPipe]_vars

\* a recvpartial call in which the transport delivers at least one byte
RecvProgress == dime_socket_recvpartial /\ wire' # wire

\* the receiving side when the peer sends a frame larger than the inbound
\* buffer, the owner keeps calling recvpartial and the transport keeps
\* delivering bytes
InitOversize == InitWith({OversizeStream}, {TRUE}, {TRUE})

SpecOversize == InitOversize /\ [][NextCodec]_vars /\ WF_vars(RecvProgress)

(***************************************************************************)
(* Properties.                                                             *)
(***************************************************************************)
\* pop's allocations succeeded in the call that gave the record c
NoAllocFailure(c) == c.why \notin {"nomem_buf", "nomem_bin"}

\* the texts of the round trip: the compact renderings of an object and of
\* an array, and a text push_str is given as it is
RoundTripTexts == {TextObj, TextArrObj, TextObjBlanks}

\* a pop step on an inbound buffer that starts with the bytes push_str made
\* of text t and blob b decodes the message: it returns the size of the
\* frame, removes that many bytes, and hands out b and the value rendered as t
DecodesPushed(t, b) ==
    (IsPrefix(Serialized(t, b), rbuf) /\ dime_socket_pop) =>
        /\ last'.ret = HdrLen + Len(t) + Len(b)
        /\ last'.ret = PushStr(<<>>, t, b).ret
        /\ rbuf' = Drop(rbuf, last'.ret)
        /\ last'.out
        /\ last'.bindata = b
        /\ last'.bindata_len = Len(b)
        /\ \A v \in JsonValues :
             (JsonDumps(v).ok /\ JsonDumps(v).str = t) => last'.jsondata = v

C2_Conservation ==
    ~pushRefused => sentTotal + RbLen(wbuf) = pushedTotal

\* two messages were pushed and sent in pieces, the last piece one byte long,
\* and the outbound buffer is empty
C2_Witness ==
    /\ ~pushRefused
    /\ nPush = MaxPushes
    /\ pushedTotal > WCap
    /\ wbuf = <<>>
    /\ sentTotal = pushedTotal
    /\ last.op = "sendpartial"
    /\ last.ret = 1

\* a push_str step with text t and blob b
PushStrStep(t, b) ==
    /\ pc = "idle"
    /\ nPush < MaxPushes
    /\ DoPush(PushStr(wbuf, t, b), PushStr(wbuf, t, b).ret < 0, t, b)

\* C3: a push_str of a message whose serialized size is more than the room
\* left in the outbound buffer returns failure and leaves the outbound buffer
\* as it was
C3_Backpressure ==
    [][\A t \in JsonStrs, b \in SendBlobs :
         (PushStrStep(t, b) /\ HdrLen + Len(t) + Len(b) > WCap - RbLen(wbuf)) =>
             (last'.ret < 0 /\ wbuf' = wbuf)]_vars

\* the inbound buffer holds exactly the first k bytes of a valid frame, for
\* some k with 1 <= k <= length of the frame - 1
HoldsCutFrame ==
    \E f \in ValidFrames : RbLen(rbuf) \in 1 .. (Len(f) - 1) /\ rbuf = Take(f, RbLen(rbuf))

\* C4 as stated: on a strict, non-empty prefix of a valid frame pop returns
\* 0, hands nothing out and leaves the inbound buffer as it is
C4_IncompleteAlways ==
    [][(HoldsCutFrame /\ dime_socket_pop) =>
          (last'.ret = 0 /\ ~last'.out /\ rbuf' = rbuf)]_vars

\* C4: on a strict, non-empty prefix of a valid frame pop hands nothing out
\* and leaves the inbound buffer as it is; it returns 0, except that with the
\* whole header buffered it returns failure when the allocation of the frame
\* copy fails
C4_Incomplete ==
    [][(HoldsCutFrame /\ dime_socket_pop) =>
          /\ ~last'.out
          /\ rbuf' = rbuf
          /\ \/ last'.ret = 0
             \/ RbLen(rbuf) >= HdrLen /\ last'.ret = -1 /\ last'.why = "nomem_buf"
          /\ NoAllocFailure(last') => last'.ret = 0]_vars

\* pop has answered "none yet" on a frame that lacks only its last byte
C4_Witness ==
    /\ last.op = "pop"
    /\ last.ret = 0
    /\ last.why = "incomplete"
    /\ \E f \in ValidFrames : Len(f) > HdrLen + 2 /\ rbuf = Take(f, Len(f) - 1)

\* C5: with a whole header at the front of the inbound buffer whose first
\* four bytes are not the magic, pop returns failure: never 0, never a message
C5_Desync ==
    [][(RbLen(rbuf) >= HdrLen /\ SubSeq(rbuf, 1, 4) # Magic /\ dime_socket_pop) =>
          (last'.ret < 0 /\ ~last'.out /\ last'.why = "bad_magic")]_vars

\* pop has refused a whole frame whose fourth magic byte was changed
C5_Witness ==
    /\ last.op = "pop"
    /\ last.ret < 0
    /\ rbuf = Corrupt(Serialized(TextObj, BlobAB), 4, 65)

\* C6: a pop that returns failure leaves the inbound buffer as it was and
\* hands out no value and no blob
C6_FailedPopKeeps ==
    [][(dime_socket_pop /\ last'.ret < 0) =>
          /\ rbuf' = rbuf
          /\ ~last'.out
          /\ last'.jsondata = NoJson
          /\ last'.bindata = <<>>
          /\ last'.bindata_len = -1]_vars

\* pop has failed on a whole frame whose structured text the parser
\* rejects, and the frame is still in the inbound buffer
C6_Witness ==
    /\ last.op = "pop"
    /\ last.ret < 0
    /\ last.why = "bad_json"
    /\ rbuf \in BadTextFrames

\* a step that is one call of sendpartial, made by the owner or by init_tls
SendPartialStep == last'.op = "sendpartial" /\ (dime_socket_sendpartial \/ init_tls_drain)

\* a step that is one call of recvpartial
RecvPartialStep == last'.op = "recvpartial" /\ dime_socket_recvpartial

\* C7: a sendpartial that returns failure leaves the outbound buffer as it
\* was, a recvpartial that returns failure leaves the inbound buffer as it
\* was, and neither call touches the buffer of the other direction
C7_NoLossOnFailure ==
    [][/\ (SendPartialStep /\ last'.ret < 0) => wbuf' = wbuf
       /\ SendPartialStep => rbuf' = rbuf
       /\ (RecvPartialStep /\ last'.ret < 0) => rbuf' = rbuf
       /\ RecvPartialStep => wbuf' = wbuf]_vars

\* recvpartial has failed because the inbound buffer had no room, with bytes
\* waiting in both buffers
C7_Witness ==
    /\ last.op = "recvpartial"
    /\ last.ret < 0
    /\ last.why = "full"
    /\ rbuf # <<>>
    /\ wbuf # <<>>

\* the record of the init_tls call under way or, once it has returned, of
\* the call that returned last
TlsCallSeen == IF pc = "idle" THEN last.call ELSE tlsCall

\* init_tls has returned and no other call has been made since
InitTlsReturned == pc = "idle" /\ last.op = "init_tls"

\* C8: an init_tls call made with bytes in the inbound buffer returns
\* failure without making a session or starting the handshake, and at no
\* point of the call is the blocking mode of the descriptor changed
C8_Precondition ==
    (pc # "idle" \/ last.op = "init_tls") =>
        (TlsCallSeen.rlen0 > 0 =>
            /\ ~TlsCallSeen.modeChanged
            /\ ~TlsCallSeen.sslNew
            /\ ~TlsCallSeen.handshake
            /\ pc # "aborted"
            /\ InitTlsReturned => last.ret < 0)

\* C9: when init_tls returns failure after it made the descriptor blocking,
\* or returns success, O_NONBLOCK is as it was when the call began
C9_ModeRestored ==
    (InitTlsReturned /\ (last.call.modeChanged \/ last.ret = 0)) =>
        nonblock = last.call.nonblock0

\* C10: after init_tls has returned on a socket that had no TLS session, a
\* session is attached exactly if the call returned success
C10_PlaintextOnFailure ==
    (InitTlsReturned /\ ~last.call.tls0) => (tls <=> last.ret = 0)

\* C11: in every init_tls call the handshake starts only with the outbound
\* buffer empty and with as many bytes handed to the transport since the call
\* began as the outbound buffer held when it began; once the handshake has
\* started the call sends nothing more
C11_DrainBeforeHandshake ==
    /\ [](tlsCall.handshake =>
            /\ wbuf = <<>>
            /\ sentTotal - tlsCall.sent0 = tlsCall.wlen0)
    /\ [][tlsCall.handshake => (wbuf' = wbuf /\ sentTotal' = sentTotal)]_vars

\* the handshake has started in a call that found a whole message in the
\* outbound buffer of a plaintext socket
C11_Witness ==
    /\ pc = "handshake"
    /\ ~tlsCall.tls0
    /\ tlsCall.wlen0 = Len(Serialized(TextObj, <<>>))
    /\ sentTotal = tlsCall.sent0 + tlsCall.wlen0

\* C12: once init_tls has returned success the socket keeps a TLS session,
\* and every later sendpartial and recvpartial goes through it, whatever is
\* called in between, further init_tls calls that fail included
C12_TlsIrreversible ==
    /\ [](upgraded => tls)
    /\ [][(upgraded /\ (SendPartialStep \/ RecvPartialStep)) => last'.via = "tls"]_vars

\* C13: a recvpartial on a non-blocking socket whose transport has nothing
\* waiting and reports no genuine error returns 0, not failure, and leaves
\* the inbound buffer as it was
C13_NoDataIsZero ==
    [][(/\ nonblock
        /\ wire = <<>>
        /\ RecvPartialStep
        /\ last'.why # "nomem"
        /\ last'.errno # "ECONNRESET") =>
           (last'.ret = 0 /\ rbuf' = rbuf)]_vars

\* the texts push_str is seen with, given to it directly or rendered by push
WireTexts == JsonStrs \cup {TextObj, TextArrObj}

\* a length below 256 as a 4-byte big-endian integer
BigEndian4(n) == <<0, 0, 0, n>>

\* a successful push_str of text t and blob b appends the magic, the two
\* lengths as 4-byte big-endian integers, t and b, and returns 12 + |t| + |b|
AppendsFrame(t, b) ==
    (PushStrStep(t, b) /\ last'.ret >= 0) =>
        /\ wbuf' = wbuf \o <<68, 105, 77, 69>> \o BigEndian4(Len(t)) \o BigEndian4(Len(b))
                        \o t \o b
        /\ last'.ret = 12 + Len(t) + Len(b)

\* a successful push_str of "{}" and "AB" appends n bytes, with both length
\* fields 00 00 00 02
AppendsExample(n) ==
    (PushStrStep(<<123, 125>>, <<65, 66>>) /\ last'.ret >= 0) =>
        /\ Len(wbuf') = Len(wbuf) + n
        /\ SubSeq(wbuf', Len(wbuf) + 5, Len(wbuf) + 12) = <<0, 0, 0, 2, 0, 0, 0, 2>>

\* C14 as stated: the layout of the appended frame, with the example
\* appending exactly 14 bytes
C14_WireFormat14 ==
    [][/\ \A t \in WireTexts, b \in SendBlobs : AppendsFrame(t, b)
       /\ AppendsExample(14)]_vars

\* C14: a successful push_str of text S and blob B appends exactly magic,
\* |S| and |B| as 4-byte big-endian integers, S and B, in that order, and
\* returns 12 + |S| + |B|; for S = "{}" and B = "AB" that is 16 bytes, both
\* length fields being 00 00 00 02
C14_WireFormat ==
    [][/\ \A t \in WireTexts, b \in SendBlobs : AppendsFrame(t, b)
       /\ AppendsExample(16)]_vars

\* "{}" with the blob "AB" has been pushed into an empty outbound buffer
C14_Witness ==
    /\ last.op = "push"
    /\ last.ret = 16
    /\ wbuf = <<68, 105, 77, 69, 0, 0, 0, 2, 0, 0, 0, 2, 123, 125, 65, 66>>

\* a step that is one call of push or push_str
PushStep == last'.op = "push" /\ nPush' = nPush + 1

\* C15: a push hands nothing to the transport, it only changes the outbound
\* buffer; and when sendpartial keeps being called and the transport keeps
\* accepting bytes, the outbound buffer becomes empty again and again, with
\* every byte of the messages enqueued until then handed to the transport
C15_EventualSend ==
    /\ [][PushStep => (sentTotal' = sentTotal /\ wire' = wire)]_vars
    /\ [](wbuf # <<>> => <>(wbuf = <<>>))
    /\ []<>(wbuf = <<>> /\ (~pushRefused => sentTotal = pushedTotal))

\* two messages have been enqueued and all their bytes sent, the first
\* sendpartial calls having moved less than a whole message
C15_Witness ==
    /\ nPush = MaxPushes
    /\ ~pushRefused
    /\ pushedTotal >= 2 * HdrLen
    /\ wbuf = <<>>
    /\ sentTotal = pushedTotal
    /\ last.op = "sendpartial"
    /\ last.ret = 2

RECURSIVE Frames(_)
\* the serialized frames of the messages msgs, one after the other
Frames(msgs) ==
    IF msgs = <<>> THEN <<>>
    ELSE Serialized(msgs[1].jsonstr, msgs[1].bindata) \o Frames(Tail(msgs))

IsSuffix(p, s) == Len(p) <= Len(s) /\ SubSeq(s, Len(s) - Len(p) + 1, Len(s)) = p

\* C16: whatever pushes, successful or failed, and sendpartial calls have
\* been made, the outbound buffer holds a suffix of the frames of the pushes
\* that returned success, in call order, and nothing of a message whose push
\* returned failure
C16_OutboundFraming == IsSuffix(wbuf, Frames(pushed))

\* the frame that the header at the front of rb announces is in rb as a
\* whole: 12 + structured_len + binary_len, as a sum of integers, is at most
\* the number of bytes buffered (fewer than 65536)
TrueFrameFits(rb) ==
    /\ rb[5] = 0 /\ rb[6] = 0 /\ rb[9] = 0 /\ rb[10] = 0
    /\ 12 + (rb[7] * 256 + rb[8]) + (rb[11] * 256 + rb[12]) <= Len(rb)

\* C17: with a header of valid magic at the front of the inbound buffer and
\* fewer bytes buffered than the integer sum 12 + structured_len + binary_len,
\* pop decodes nothing and reads no segment data: it answers "none yet", or
\* fails because the frame copy cannot be allocated
C17_FrameLength ==
    [][(/\ RbLen(rbuf) >= 12
        /\ SubSeq(rbuf, 1, 4) = Magic
        /\ ~TrueFrameFits(rbuf)
        /\ dime_socket_pop) =>
           /\ pc' = "idle"
           /\ last'.op = "pop"
           /\ last'.why \in {"incomplete", "nomem_buf"}
           /\ rbuf' = rbuf]_vars

SameMessage(i) ==
    /\ popped[i].bindata = pushed[i].bindata
    /\ JsonLoadb(pushed[i].jsonstr).ok
    /\ popped[i].jsondata = JsonLoadb(pushed[i].jsonstr).val

\* the inbound buffer starts at a frame boundary: it begins with the frame,
\* or with the part received so far of the frame, of the oldest message not
\* handed out yet, and is empty when there is none
AtFrameBoundary ==
    IF Len(popped) < Len(pushed)
    THEN LET m == pushed[Len(popped) + 1]
             f == Serialized(m.jsonstr, m.bindata) IN
         IsPrefix(Take(rbuf, Len(f)), f)
    ELSE rbuf = <<>>

\* the messages handed out by pop are the first of the messages pushed, in
\* the same order
PoppedIsPrefix ==
    /\ Len(popped) <= Len(pushed)
    /\ \A i \in 1 .. Len(popped) : i <= Len(pushed) => SameMessage(i)

\* C19: with the sender's sendpartial output fed into the receiver's
\* recvpartial, under any sizes of the pieces sent and received, and with no
\* push refused, the messages handed out by the receiver's successful pops
\* are the first of the messages pushed, in the same order, each successful
\* pop handing out one message, and the inbound buffer starts at a frame
\* boundary
C19_FifoDelivery ==
    /\ [](~pushRefused => (PoppedIsPrefix /\ AtFrameBoundary))
    /\ [][(dime_socket_pop /\ last'.ret > 0) => Len(popped') = Len(popped) + 1]_vars

\* the inbound buffer starts with a header of valid magic that announces a
\* frame of more bytes than the inbound buffer can hold
HoldsOversizeHeader ==
    /\ RbLen(rbuf) >= 12
    /\ SubSeq(rbuf, 1, 4) = Magic
    /\ \/ rbuf[5] # 0 \/ rbuf[6] # 0 \/ rbuf[9] # 0 \/ rbuf[10] # 0
       \/ 12 + (rbuf[7] * 256 + rbuf[8]) + (rbuf[11] * 256 + rbuf[12]) > RCap

\* C20: when the inbound buffer starts with a header of valid magic whose
\* frame exceeds the capacity of the inbound buffer, the peer has more to
\* send than the buffer has room for, and the owner keeps calling
\* recvpartial and pop, a call of recvpartial or pop reports failure
C20_OversizeRejected ==
    (HoldsOversizeHeader /\ Len(wire) > RCap - RbLen(rbuf)) ~>
        (last.op \in {"recvpartial", "pop"} /\ last.ret < 0)

\* recvpartial has failed for lack of room while the inbound buffer starts
\* with the header of the oversized frame and pop has nothing to hand out
C20_Witness ==
    /\ HoldsOversizeHeader
    /\ last.op = "recvpartial"
    /\ last.why = "full"
    /\ Pop(rbuf, TRUE, TRUE, "overread").ret = 0

=============================================================================
